---------------------------- MODULE Spec2Model ----------------------------
(***************************************************************************)
(* LimitedCache (rustls/src/limited_cache.rs): a HashMap `map` paired with *)
(* a VecDeque `oldest` of keys in admission order; an insert of a new key  *)
(* evicts the front of `oldest` when the queue has filled its reserved     *)
(* capacity.                                                               *)
(***************************************************************************)
EXTENDS Integers, Sequences, FiniteSets, TLC

\* ---- bounds of the model ----
NumKeys == 3
NumVals == 2
MaxCap == 4

Keys == 1..NumKeys
Values == 1..NumVals

\* Option::None, for keys and for values alike (keys and values start at 1)
None == 0

VARIABLES
    map,        \* HashMap<K, V>: a function whose domain is the present keys
    oldest,     \* VecDeque<K>: first item is the oldest key
    cap,        \* oldest.capacity(), the reserved capacity of the queue
    cap0,       \* history: oldest.capacity() right after new()
    before,     \* history: <<a, b>> iff a and b are present and a's current
                \*          admission happened before b's
    last,       \* history: the operation just performed, what it returned
                \*          and what kind of operation came before it
    pure,       \* history (SpecPure): the inserts so far, while they were
                \*          inserts of pairwise distinct keys with no remove
    retain,     \* history (SpecRetain): a key watched from its admission on
    reside,     \* history (SpecReside): a key watched from a state where it
                \*          is present
    readmit     \* history (SpecReadmit): a key watched from its admission
                \*          through its leaving and its next admission

\* Each history variable beyond cap0 is recorded by one specification and
\* left as Init sets it by the others.
hist == <<pure, retain, reside, readmit>>

vars == <<map, oldest, cap, cap0, before, last, pure, retain, reside, readmit>>

Max(a, b) == IF a >= b THEN a ELSE b

Range(q) == {q[i] : i \in 1..Len(q)}

\* q without k, the other items in the order they had
Without(q, k) == LET keep(x) == x # k IN SelectSeq(q, keep)

\* ---- std::collections::HashMap, as far as the cache uses it ----

\* HashMap::get
MapGet(m, k) == IF k \in DOMAIN m THEN m[k] ELSE None

\* Entry::Occupied::insert / Entry::or_insert on a vacant entry
MapInsert(m, k, v) == [x \in DOMAIN m \cup {k} |-> IF x = k THEN v ELSE m[x]]

\* HashMap::remove, the map it leaves
MapRemove(m, k) == [x \in DOMAIN m \ {k} |-> m[x]]

\* ---- std::collections::VecDeque, as far as the cache uses it ----

\* VecDeque::with_capacity(n): "may be rounded up by the underlying
\* collections": any capacity from n up
with_capacity(n) == n..Max(n, MaxCap)

\* the capacities push_back can leave: unchanged while there is room,
\* otherwise the storage is grown to hold at least one more item
push_back_capacity(c, len) == IF len = c THEN (len + 1)..Max(len + 1, MaxCap) ELSE {c}

push_back(q, k) == Append(q, k)

\* (faulty variant) pop_back in place of pop_front
pop_back(q) == [item |-> q[Len(q)], rest |-> SubSeq(q, 1, Len(q) - 1)]

\* (faulty variant) front() in place of pop_front(): the item stays in the queue
front_only(q) == [item |-> Head(q), rest |-> q]

\* (faulty variant) remove(1) in place of pop_front(): with indices counted
\* from 0 that is the second item
remove_index_one(q) ==
    IF Len(q) >= 2
    THEN [item |-> q[2], rest |-> <<q[1]>> \o SubSeq(q, 3, Len(q))]
    ELSE [item |-> Head(q), rest |-> Tail(q)]

\* VecDeque::pop_front on a non-empty queue: the item and what is left
pop_front(q) == [item |-> Head(q), rest |-> Tail(q)]

\* iter().position(|item| item == k): the first index holding k (1-based),
\* None when no item matches
position(q, k) ==
    IF k \in Range(q)
    THEN CHOOSE i \in 1..Len(q) : q[i] = k /\ \A j \in 1..(i - 1) : q[j] # k
    ELSE None

\* (faulty variant) the index taken one too far
remove_at_next(q, index) == SubSeq(q, 1, index) \o SubSeq(q, index + 2, Len(q))

\* (faulty variant) VecDeque::swap_remove_back: the last item takes the place of the
\* one dropped
swap_remove_back(q, index) ==
    [i \in 1..(Len(q) - 1) |-> IF i = index THEN q[Len(q)] ELSE q[i]]

\* VecDeque::remove(index): drops the item, the others keep their order
remove_at(q, index) == SubSeq(q, 1, index - 1) \o SubSeq(q, index + 1, Len(q))

\* ---- LimitedCache ----

\* (faulty variant) an update moves the key to the back of the queue
Occupied_freshen(m, q, k, v) ==
    [map |-> MapInsert(m, k, v), oldest |-> Append(Without(q, k), k)]

\* (faulty variant) or_insert on an occupied entry: the old value stays
Occupied_or_insert(m, q, k, v) == [map |-> m, oldest |-> q]

\* (faulty variant) OccupiedEntry::remove in place of insert: the entry is
\* dropped
Occupied_remove_entry(m, q, k, v) == [map |-> MapRemove(m, k), oldest |-> q]

\* insert, Entry::Occupied arm: the value is replaced, `oldest` is not
\* freshened
Occupied(m, q, k, v) == [map |-> MapInsert(m, k, v), oldest |-> q]

\* (faulty variant) push_front in place of push_back
Vacant_push_front(m, q, k, v) == [map |-> MapInsert(m, k, v), oldest |-> <<k>> \o q]

\* insert, Entry::Vacant arm: the key goes to the back of `oldest`, the entry
\* into the map
Vacant(m, q, k, v) == [map |-> MapInsert(m, k, v), oldest |-> push_back(q, k)]

\* (faulty variant) evicts only once the queue is longer than its capacity, which a
\* VecDeque never is
ShouldEvict_over(inserted_new_item, capacity, len) ==
    inserted_new_item /\ capacity < len

\* (faulty variant) evicts one item early
ShouldEvict_early(inserted_new_item, capacity, len) ==
    inserted_new_item /\ capacity = len + 1

\* insert's eviction test
ShouldEvict(inserted_new_item, capacity, len) == inserted_new_item /\ capacity = len

\* insert(k, v) on map m and queue q, c1 being the queue's capacity after the
\* push_back: the map and queue it leaves, and the key it evicted
insert(m, q, c1, k, v) ==
    LET inserted_new_item == k \notin DOMAIN m
        s == IF inserted_new_item THEN Vacant(m, q, k, v) ELSE Occupied(m, q, k, v)
    IN  IF ShouldEvict(inserted_new_item, c1, Len(s.oldest)) /\ s.oldest # <<>>
        THEN LET p == pop_front(s.oldest)
             IN  [map |-> MapRemove(s.map, p.item), oldest |-> p.rest,
                  evicted |-> p.item]
        ELSE [map |-> s.map, oldest |-> s.oldest, evicted |-> None]

\* (faulty variant) a hit moves the key to the back of the queue
get_refresh(m, q, k) ==
    [map |-> m,
     oldest |-> IF k \in DOMAIN m THEN Append(Without(q, k), k) ELSE q,
     ret |-> MapGet(m, k)]

\* get(k): the value returned; `&self`, so map and queue are as they were
get(m, q, k) == [map |-> m, oldest |-> q, ret |-> MapGet(m, k)]

\* (faulty variant) the queue is searched whether or not the map held the key, the
\* index defaulting to the front
remove_unchecked(m, q, k) ==
    LET index == IF position(q, k) # None THEN position(q, k) ELSE 1
    IN  [map |-> MapRemove(m, k),
         oldest |-> remove_at(q, index),
         ret |-> MapGet(m, k)]

\* remove(k): on a hit the entry leaves the map and the key is searched for
\* in `oldest` and taken out; on a miss nothing is touched
remove(m, q, k) ==
    IF k \in DOMAIN m
    THEN LET index == position(q, k)
         IN  [map |-> MapRemove(m, k),
              oldest |-> IF index # None THEN remove_at(q, index) ELSE q,
              ret |-> m[k]]
    ELSE [map |-> m, oldest |-> q, ret |-> None]

\* ---- history bookkeeping ----

\* what a call on k follows. An insert: an insert of the same key, a remove
\* that hit, or anything else. A get: two inserts of the same key in a row,
\* or anything else. A remove: not recorded.
After(o, name, k) ==
    IF name = "insert" /\ o.op = "insert" /\ o.k = k THEN "insert_same_key"
    ELSE IF name = "insert" /\ o.op = "remove" /\ o.hit THEN "remove_hit"
    ELSE IF name = "get" /\ o.op = "insert" /\ o.k = k /\ o.after = "insert_same_key"
        THEN "two_inserts_same_key"
    ELSE "other"

Op(name, k, v, ret, hit, evicted, after) ==
    [op |-> name, k |-> k, v |-> v, ret |-> ret, hit |-> hit, evicted |-> evicted,
     after |-> after]

\* key k admitted while the keys of `present` are present
Admit(b, present, k) == b \cup {<<j, k>> : j \in present \ {k}}

\* the keys of `gone` have left the cache
Drop(b, gone) == {p \in b : p[1] \notin gone /\ p[2] \notin gone}

\* a saturating count of admissions
Bump(n) == IF n < MaxCap THEN n + 1 ELSE n

NoRun == [ok |-> FALSE, seq |-> <<>>]
RunKeys(run) == {run.seq[i].k : i \in 1..Len(run.seq)}

NoRetain == [on |-> FALSE, k |-> None, n |-> 0, v |-> None]
NoReside == [on |-> FALSE, k |-> None, n |-> 0, again |-> FALSE]
NoReadmit == [phase |-> "off", k |-> None, S |-> {}, atBack |-> FALSE,
              evicting |-> FALSE]

\* ---- the state machine ----

\* LimitedCache::new(capacity_order_of_magnitude)
Init ==
    /\ map = <<>>
    /\ oldest = <<>>
    /\ \E hint \in 0..MaxCap : cap \in with_capacity(hint)
    /\ cap0 = cap
    /\ before = {}
    /\ last = Op("new", None, None, None, FALSE, None, "other")
    /\ pure = [ok |-> TRUE, seq |-> <<>>]
    /\ retain = NoRetain
    /\ reside = NoReside
    /\ readmit = NoReadmit

Insert ==
    \E k \in Keys, v \in Values :
        \E c1 \in (IF k \in DOMAIN map THEN {cap} ELSE push_back_capacity(cap, Len(oldest))) :
            LET r == insert(map, oldest, c1, k, v)
                hit == k \in DOMAIN map
                b1 == IF hit THEN before ELSE Admit(before, DOMAIN map, k)
            IN  /\ map' = r.map
                /\ oldest' = r.oldest
                /\ cap' = c1
                /\ before' = Drop(b1, (DOMAIN map \cup {k}) \ DOMAIN r.map)
                /\ last' = Op("insert", k, v, None, hit, r.evicted,
                                After(last, "insert", k))
                /\ UNCHANGED <<cap0, hist>>

Get ==
    \E k \in Keys :
        LET r == get(map, oldest, k)
        IN  /\ map' = r.map
            /\ oldest' = r.oldest
            /\ last' = Op("get", k, None, r.ret, k \in DOMAIN map, None,
                            After(last, "get", k))
            /\ UNCHANGED <<cap, cap0, before, hist>>

Remove ==
    \E k \in Keys :
        LET r == remove(map, oldest, k)
        IN  /\ map' = r.map
            /\ oldest' = r.oldest
            /\ before' = Drop(before, DOMAIN map \ DOMAIN r.map)
            /\ last' = Op("remove", k, None, r.ret, k \in DOMAIN map, None, "other")
            /\ UNCHANGED <<cap, cap0, hist>>

Next == Insert \/ Get \/ Remove

Spec == Init /\ [][Next]_vars

\* ---- the same calls, for the specifications that record other history ----

\* the capacities the queue can have after insert(k, .)'s push_back
Capacities(k) ==
    IF k \in DOMAIN map THEN {cap} ELSE push_back_capacity(cap, Len(oldest))

\* insert(k, v), the queue's capacity becoming c1
InsertCall(k, v, c1) ==
    LET r == insert(map, oldest, c1, k, v)
    IN  /\ map' = r.map
        /\ oldest' = r.oldest
        /\ cap' = c1
        /\ UNCHANGED cap0

GetCall(k) ==
    LET r == get(map, oldest, k)
    IN  /\ map' = r.map
        /\ oldest' = r.oldest
        /\ UNCHANGED <<cap, cap0>>

RemoveCall(k) ==
    LET r == remove(map, oldest, k)
    IN  /\ map' = r.map
        /\ oldest' = r.oldest
        /\ UNCHANGED <<cap, cap0>>

\* ---- SpecPure: runs of inserts of pairwise distinct keys ----

PureInsert ==
    \E k \in Keys, v \in Values :
        \E c1 \in Capacities(k) :
            /\ InsertCall(k, v, c1)
            /\ pure' = IF pure.ok /\ k \notin RunKeys(pure)
                       THEN [ok |-> TRUE, seq |-> Append(pure.seq, [k |-> k, v |-> v])]
                       ELSE NoRun
            /\ UNCHANGED <<before, last, retain, reside, readmit>>

PureGet ==
    \E k \in Keys :
        /\ GetCall(k)
        /\ UNCHANGED <<before, last, hist>>

PureRemove ==
    \E k \in Keys :
        /\ RemoveCall(k)
        /\ pure' = NoRun
        /\ UNCHANGED <<before, last, retain, reside, readmit>>

PureNext == PureInsert \/ PureGet \/ PureRemove

SpecPure == Init /\ [][PureNext]_vars

\* ---- SpecRetain: a key from its admission on ----
\* retain.k is watched from an insert that admitted it until a remove of it;
\* retain.n counts the inserts of absent keys made since, retain.v is the
\* value of the latest insert of retain.k.

RetainAfterInsert(k, v, start) ==
    LET admission == k \notin DOMAIN map
    IN  IF ~retain.on
        THEN IF start /\ admission
             THEN [on |-> TRUE, k |-> k, n |-> 0, v |-> v]
             ELSE retain
        ELSE [retain EXCEPT !.n = IF admission THEN Bump(@) ELSE @,
                            !.v = IF k = retain.k THEN v ELSE @]

RetainInsert ==
    \E k \in Keys, v \in Values, start \in BOOLEAN :
        \E c1 \in Capacities(k) :
            /\ InsertCall(k, v, c1)
            /\ retain' = RetainAfterInsert(k, v, start)
            /\ UNCHANGED <<before, last, pure, reside, readmit>>

RetainGet ==
    \E k \in Keys :
        /\ GetCall(k)
        /\ UNCHANGED <<before, last, hist>>

RetainRemove ==
    \E k \in Keys :
        /\ RemoveCall(k)
        /\ retain' = IF retain.on /\ k = retain.k THEN NoRetain ELSE retain
        /\ UNCHANGED <<before, last, pure, reside, readmit>>

RetainNext == RetainInsert \/ RetainGet \/ RetainRemove

SpecRetain == Init /\ [][RetainNext]_vars

\* ---- SpecReside: a key from a state where it is present ----
\* reside.k is watched from any state in which it is present until a remove
\* hits; reside.n counts the inserts of absent keys made since, reside.again
\* tells that one of them was an insert of reside.k itself.

\* the watch may begin in the state a call leaves, on a key w present there
\* (None: it does not begin)
ResideBegin(m1, w) ==
    IF w # None /\ w \in DOMAIN m1
    THEN [on |-> TRUE, k |-> w, n |-> 0, again |-> FALSE]
    ELSE NoReside

ResideAfterInsert(k, m1, w) ==
    IF ~reside.on THEN ResideBegin(m1, w)
    ELSE IF k \in DOMAIN map THEN reside
    ELSE [reside EXCEPT !.n = Bump(@), !.again = @ \/ (k = reside.k)]

ResideInsert ==
    \E k \in Keys, v \in Values, w \in Keys \cup {None} :
        \E c1 \in Capacities(k) :
            /\ InsertCall(k, v, c1)
            /\ reside' = ResideAfterInsert(k, insert(map, oldest, c1, k, v).map, w)
            /\ UNCHANGED <<before, last, pure, retain, readmit>>

ResideGet ==
    \E k \in Keys, w \in Keys \cup {None} :
        /\ GetCall(k)
        /\ reside' = IF ~reside.on THEN ResideBegin(map, w) ELSE reside
        /\ UNCHANGED <<before, last, pure, retain, readmit>>

ResideRemove ==
    \E k \in Keys, w \in Keys \cup {None} :
        /\ RemoveCall(k)
        /\ reside' = IF ~reside.on THEN ResideBegin(remove(map, oldest, k).map, w)
                     ELSE IF k \in DOMAIN map THEN NoReside
                     ELSE reside
        /\ UNCHANGED <<before, last, pure, retain, readmit>>

ResideNext == ResideInsert \/ ResideGet \/ ResideRemove

SpecReside == Init /\ [][ResideNext]_vars

\* ---- SpecReadmit: a key through leaving and coming back ----
\* readmit.k is watched from an insert that admitted it. phase tells where
\* it stands: "present" (first stay), "gone" (removed or evicted), "back"
\* (inserted again and present), "evicted" (evicted after coming back).
\* From its coming back on, S holds the keys that were present at that
\* moment and have been present ever since, atBack tells that the insert
\* left it at the back of the queue and evicting that this insert evicted a
\* key.

ReadmitAfterInsert(k, r, start) ==
    IF readmit.phase \in {"off", "evicted"}
    THEN IF start /\ k \notin DOMAIN map
         THEN [NoReadmit EXCEPT !.k = k,
                                !.phase = IF k \in DOMAIN r.map THEN "present" ELSE "gone"]
         ELSE readmit
    ELSE IF readmit.phase = "present"
    THEN IF readmit.k \in DOMAIN r.map THEN readmit
         ELSE [readmit EXCEPT !.phase = "gone"]
    ELSE IF readmit.phase = "gone"
    THEN IF k # readmit.k THEN readmit
         ELSE [phase |-> IF k \in DOMAIN r.map THEN "back" ELSE "evicted",
               k |-> k,
               S |-> DOMAIN map \cap DOMAIN r.map,
               atBack |-> r.oldest # <<>> /\ r.oldest[Len(r.oldest)] = k,
               evicting |-> r.evicted # None]
    ELSE \* "back"
         IF readmit.k \in DOMAIN r.map
         THEN [readmit EXCEPT !.S = @ \cap DOMAIN r.map]
         ELSE [readmit EXCEPT !.phase = "evicted"]

ReadmitAfterRemove(k, r) ==
    IF readmit.phase = "present" /\ readmit.k \notin DOMAIN r.map
    THEN [readmit EXCEPT !.phase = "gone"]
    ELSE IF readmit.phase = "back"
    THEN IF readmit.k \notin DOMAIN r.map THEN NoReadmit
         ELSE [readmit EXCEPT !.S = @ \cap DOMAIN r.map]
    ELSE readmit

ReadmitInsert ==
    \E k \in Keys, v \in Values, start \in BOOLEAN :
        \E c1 \in Capacities(k) :
            /\ InsertCall(k, v, c1)
            /\ readmit' = ReadmitAfterInsert(k, insert(map, oldest, c1, k, v), start)
            /\ UNCHANGED <<before, last, pure, retain, reside>>

ReadmitGet ==
    \E k \in Keys :
        /\ GetCall(k)
        /\ UNCHANGED <<before, last, hist>>

ReadmitRemove ==
    \E k \in Keys :
        /\ RemoveCall(k)
        /\ readmit' = ReadmitAfterRemove(k, remove(map, oldest, k))
        /\ UNCHANGED <<before, last, pure, retain, reside>>

ReadmitNext == ReadmitInsert \/ ReadmitGet \/ ReadmitRemove

SpecReadmit == Init /\ [][ReadmitNext]_vars

\* ---- what a step did, read off the states before and after it ----

Present == DOMAIN map

\* the keys get finds
Retrievable == {k \in Keys : get(map, oldest, k).ret # None}

NoDuplicates(q) == \A i, j \in 1..Len(q) : q[i] = q[j] => i = j

InsertStep == last'.op = "insert"
InsertNewStep == InsertStep /\ last'.k \notin Present
InsertPresentStep == InsertStep /\ last'.k \in Present
GetStep == last'.op = "get"
RemoveHitStep == last'.op = "remove" /\ last'.k \in Present
RemoveMissStep == last'.op = "remove" /\ last'.k \notin Present

\* the keys present at the moment an insert of a new key decides to evict
PresentAtEviction == Present \cup {last'.k}

\* the keys the step made absent
Gone == PresentAtEviction \ DOMAIN map'

\* a was admitted before b, both being present when the insert of last'.k
\* evicts
AdmittedBefore(a, b) ==
    IF b = last'.k /\ b \notin Present THEN a # b
    ELSE IF a = last'.k /\ a \notin Present THEN FALSE
    ELSE <<a, b>> \in before

OthersKept(k) == \A j \in Present \ {k} : j \in DOMAIN map' /\ map'[j] = map[j]

\* ---- C1 ----
\* C1: with a reserved capacity C >= 1, between operations at most C keys are
\* retrievable via get.
C1_CapacityBound == cap0 >= 1 => Cardinality(Retrievable) <= cap0

\* an insert has just evicted and the cache holds as much as it ever does
C1_Witness ==
    /\ cap0 >= 3
    /\ last.op = "insert" /\ last.evicted # None
    /\ Cardinality(Retrievable) = cap0 - 1

\* ---- C2 ----
\* C2: the keys of the order queue are exactly the keys of the lookup table,
\* no key is twice in the queue, and get(k) returns a value iff k is in the
\* queue.
C2_TableQueueConsistency ==
    /\ Range(oldest) = DOMAIN map
    /\ NoDuplicates(oldest)
    /\ \A k \in Keys : (get(map, oldest, k).ret # None) <=> (k \in Range(oldest))
    /\ last.op = "get" => ((last.ret # None) <=> (last.k \in Range(oldest)))

\* get has just missed on a key while the queue holds two others
C2_Witness ==
    /\ last.op = "get" /\ last.ret = None /\ last.k \notin Range(oldest)
    /\ Len(oldest) = 2

\* ---- C3 ----
\* C3: a key an insert evicts was admitted before every other key present at
\* that moment, and an insert makes no other key absent.
C3_OldestFirstEviction ==
    [][InsertStep =>
        \A e \in Gone :
            /\ last'.evicted = e
            /\ \A j \in PresentAtEviction \ {e} : AdmittedBefore(e, j)]_vars

\* an insert has evicted a key and two younger keys stay
C3_Witness ==
    /\ last.op = "insert" /\ last.evicted # None /\ last.evicted # last.k
    /\ Len(oldest) = 2
    /\ last.evicted \notin DOMAIN map

\* ---- C4 ----
\* C4: an insert on a present key replaces that key's value and nothing else:
\* queue, present keys, the other values stay, nothing is evicted.
C4_UpdateInPlace ==
    [][InsertPresentStep =>
        /\ oldest' = oldest
        /\ cap' = cap
        /\ DOMAIN map' = DOMAIN map
        /\ map'[last'.k] = last'.v
        /\ OthersKept(last'.k)
        /\ last'.evicted = None]_vars

\* the key at the front of a queue of three has just been updated
C4_Witness ==
    /\ last.op = "insert" /\ last.hit
    /\ Len(oldest) = 3 /\ oldest[1] = last.k
    /\ map[last.k] = last.v

\* ---- C5 ----
\* insert(k, v1) then insert(k, v2) leaves the queue as the first insert left
\* it, and get(k) after the two returns v2
ReadYourWrite ==
    /\ (last.op = "insert" /\ InsertStep /\ last'.k = last.k) => oldest' = oldest
    /\ (last.op = "insert" /\ last.after = "insert_same_key"
            /\ GetStep /\ last'.k = last.k) => last'.ret = last.v

\* C5 as stated: for every reserved capacity C >= 1, insert(k, v1) followed by
\* insert(k, v2) leaves the queue as it was after the first insert and a
\* following get(k) returns v2.
C5_Original == [][cap0 >= 1 => ReadYourWrite]_vars

\* C5, amended: the same for every reserved capacity C >= 2.
C5_ReadYourWrite == [][cap0 >= 2 => ReadYourWrite]_vars

\* k has been inserted twice in a row and get(k) has then found a value
C5_Witness ==
    /\ cap0 >= 2
    /\ last.op = "get" /\ last.after = "two_inserts_same_key"
    /\ last.hit /\ last.ret # None /\ last.ret = map[last.k]

\* ---- C6 ----
\* C6: remove(k) of a present key returns its value; afterwards k is in
\* neither container and every other key keeps its value and its relative
\* order in the queue.
C6_RemoveHit ==
    [][RemoveHitStep =>
        /\ last'.ret = map[last'.k]
        /\ last'.k \notin DOMAIN map'
        /\ last'.k \notin Range(oldest')
        /\ OthersKept(last'.k)
        /\ oldest' = Without(oldest, last'.k)]_vars

\* one of three keys has been removed, the two others are left
C6_Witness ==
    /\ last.op = "remove" /\ last.hit /\ last.ret # None
    /\ Len(oldest) = 2 /\ last.k \notin Range(oldest)
    /\ last.k \notin DOMAIN map

\* ---- C7 ----
\* C7: remove(k) of an absent key returns absence and leaves the lookup table
\* and the order queue as they were.
C7_RemoveMiss ==
    [][RemoveMissStep =>
        /\ last'.ret = None
        /\ map' = map
        /\ oldest' = oldest
        /\ cap' = cap]_vars

\* a remove has missed on a cache that holds keys
C7_Witness ==
    /\ last.op = "remove" /\ ~last.hit /\ last.ret = None
    /\ Len(oldest) >= 2

\* ---- C8 ----
\* C8: get(k) returns the value the lookup table stores for k, absence when
\* there is none, and changes neither the table nor the queue.
C8_GetReadOnly ==
    [][GetStep =>
        /\ last'.ret = (IF last'.k \in DOMAIN map THEN map[last'.k] ELSE None)
        /\ map' = map
        /\ oldest' = oldest
        /\ cap' = cap]_vars

\* get has just found the key at the front of a queue of several keys
C8_Witness ==
    /\ last.op = "get" /\ last.hit /\ last.ret # None
    /\ Len(oldest) >= 2 /\ oldest[1] = last.k

\* ---- C9 ----
\* C9: right after a remove that hit, an insert of an absent key evicts
\* nothing: every key present after the remove is still retrievable.
C9_RemovalDefersEviction ==
    [][(last.op = "remove" /\ last.hit /\ InsertNewStep) =>
        /\ DOMAIN map' = Present \cup {last'.k}
        /\ OthersKept(last'.k)
        /\ last'.evicted = None]_vars

\* a key was removed from a cache one short of evicting, then a new key was
\* inserted
C9_Witness ==
    /\ last.op = "insert" /\ ~last.hit /\ last.after = "remove_hit"
    /\ Len(oldest) = cap - 1
    /\ Len(oldest) >= 2

\* ---- C10 ----
\* an insert starts with room for one more key in the queue and leaves the
\* queue's capacity the one reserved at construction
RoomForOne == Len(oldest) < cap /\ cap = cap0 /\ cap' = cap0

\* C10 as stated: for every reserved capacity, 0 included, at the start of
\* every insert the queue is shorter than its reserved capacity, which stays
\* what it was at construction.
C10_Original == [][InsertStep => RoomForOne]_vars

\* C10, amended: the same for every reserved capacity C >= 1.
C10_NoQueueGrowth == [][(cap0 >= 1 /\ InsertStep) => RoomForOne]_vars

\* an insert has just evicted, the queue is one short of its capacity
C10_Witness ==
    /\ cap0 >= 2
    /\ last.op = "insert" /\ last.evicted # None
    /\ Len(oldest) = cap - 1

\* ---- C11 ----
\* the queue of an insert of last'.k right after the key is appended
Appended == Append(oldest, last'.k)

\* the insert is one of an absent key and the appended queue fills the
\* reserved capacity
Trigger == InsertNewStep /\ Len(oldest) = cap0 - 1 /\ Len(Appended) = cap0

\* C11: for a reserved capacity C >= 1 an insert evicts exactly when it is
\* one of an absent key and the queue, the key appended, is C long; it then
\* evicts the front of the queue, and only it, from both containers.
C11_EvictionTrigger ==
    [][(cap0 >= 1 /\ InsertStep) =>
        /\ (last'.evicted # None) <=> Trigger
        /\ (Gone # {}) <=> Trigger
        /\ Trigger =>
            /\ Gone = {Head(Appended)}
            /\ last'.evicted = Head(Appended)
            /\ oldest' = Tail(Appended)
            /\ DOMAIN map' = PresentAtEviction \ {Head(Appended)}
        /\ ~Trigger =>
            /\ oldest' = (IF InsertNewStep THEN Appended ELSE oldest)
            /\ DOMAIN map' = PresentAtEviction]_vars

\* an insert of an absent key has filled a queue of capacity 3 or more and
\* evicted the front key
C11_Witness ==
    /\ cap0 >= 3
    /\ last.op = "insert" /\ ~last.hit /\ last.evicted # None
    /\ Len(oldest) = cap0 - 1 /\ oldest[Len(oldest)] = last.k

\* ---- C12 ----
\* C12: the order queue lists exactly the present keys, each before the keys
\* admitted after it.
C12_QueueOrder ==
    /\ Range(oldest) = Present
    /\ before \subseteq Present \X Present
    /\ \A i, j \in 1..Len(oldest) : (i < j) <=> (<<oldest[i], oldest[j]>> \in before)

\* a key has been admitted again after a remove, two older keys are ahead
\* of it
C12_Witness ==
    /\ last.op = "insert" /\ ~last.hit /\ last.after = "remove_hit"
    /\ Len(oldest) = 3 /\ oldest[3] = last.k

\* ---- C14 ----
\* C14: an insert never lowers the number of present keys and raises it by at
\* most one (an update leaves it, an admission evicts at most one key); only
\* a remove lowers it.
C14_InsertSizeEffect ==
    [][/\ InsertStep =>
            /\ Cardinality(DOMAIN map') >= Cardinality(Present)
            /\ Cardinality(DOMAIN map') <= Cardinality(Present) + 1
            /\ Cardinality(Gone) <= 1
       /\ InsertPresentStep => Cardinality(DOMAIN map') = Cardinality(Present)
       /\ Cardinality(DOMAIN map') < Cardinality(Present) => RemoveHitStep]_vars

\* an admission has evicted a key: two keys before, two keys after
C14_Witness ==
    /\ last.op = "insert" /\ ~last.hit /\ last.evicted # None
    /\ Cardinality(DOMAIN map) = 2 /\ last.k \in DOMAIN map

\* ---- C15 ----
\* C15: a present key j becomes absent only by remove(j) or by an evicting
\* insert made while j is the front of the queue, and a key's value changes
\* only by an insert of that key.
C15_PerKeyTransitions ==
    [][\A j \in Present :
        /\ j \notin DOMAIN map' =>
            \/ last'.op = "remove" /\ last'.k = j
            \/ InsertNewStep /\ oldest # <<>> /\ oldest[1] = j /\ last'.evicted = j
        /\ (j \in DOMAIN map' /\ map'[j] # map[j]) =>
            (InsertStep /\ last'.k = j)]_vars

\* an insert has evicted the front key of a cache of capacity 3, the key
\* behind it has stayed
C15_Witness ==
    /\ cap0 = 3
    /\ last.op = "insert" /\ last.evicted # None /\ last.evicted # last.k
    /\ oldest # <<>> /\ oldest[Len(oldest)] = last.k /\ oldest[1] # last.k

\* ---- C18 ----
\* C18: with a reserved capacity of exactly 1 every insert evicts the key it
\* inserted, the cache is empty between operations and get(k) right after
\* insert(k, v) returns absence.
C18_CapacityOneRetainsNothing ==
    cap = 1 =>
        /\ DOMAIN map = {} /\ oldest = <<>>
        /\ Retrievable = {}
        /\ last.op = "insert" =>
            (last.evicted = last.k /\ get(map, oldest, last.k).ret = None)
        /\ last.op = "get" => last.ret = None

\* a cache built with capacity 1 has seen the same key inserted twice
C18_Witness ==
    /\ cap0 = 1
    /\ last.op = "insert" /\ last.after = "insert_same_key"
    /\ last.evicted = last.k /\ ~last.hit

\* ---- C13 ----
Min(a, b) == IF a <= b THEN a ELSE b

\* the last m inserts of a run
LastOf(run, m) == SubSeq(run.seq, Len(run.seq) - m + 1, Len(run.seq))

\* C13: after n inserts of pairwise distinct keys into a new cache of
\* reserved capacity C >= 1, no remove made, the retrievable keys are the
\* last min(n, C-1) keys inserted, each with its value; with capacity 3 the
\* third insert has evicted the first key.
C13_SlidingWindow ==
    (cap0 >= 1 /\ pure.ok) =>
        LET w == LastOf(pure, Min(Len(pure.seq), cap0 - 1))
        IN  /\ Retrievable = {w[i].k : i \in 1..Len(w)}
            /\ \A i \in 1..Len(w) : get(map, oldest, w[i].k).ret = w[i].v
            /\ (cap0 = 3 /\ Len(pure.seq) = 3) =>
                    get(map, oldest, pure.seq[1].k).ret = None

\* three distinct keys have gone into a new cache of capacity 3
C13_Witness ==
    /\ cap0 = 3 /\ pure.ok /\ Len(pure.seq) = 3
    /\ Cardinality(Retrievable) = 2
    /\ pure.seq[1].k \notin Retrievable

\* ---- C16 ----
\* C16: with a reserved capacity C >= 2, a key admitted by an insert is
\* retrievable, with the value of the latest insert of it, for as long as no
\* remove of it and fewer than C-1 inserts of absent keys have followed.
C16_Retention ==
    (cap0 >= 2 /\ retain.on /\ retain.n < cap0 - 1) =>
        /\ retain.k \in Retrievable
        /\ get(map, oldest, retain.k).ret = retain.v

\* the watched key has come to the front of a cache of capacity 3 or more:
\* the next admission evicts it
C16_Witness ==
    /\ cap0 >= 3 /\ retain.on /\ retain.n = cap0 - 2
    /\ Len(oldest) = cap0 - 1 /\ oldest[1] = retain.k
    /\ map[retain.k] = retain.v

\* ---- C17 ----
\* C17 as stated: for a reserved capacity C >= 1, once C-1 inserts of absent
\* keys have followed a state where k is present, no remove having hit in
\* between, k is no longer retrievable.
C17_Original ==
    (cap0 >= 1 /\ reside.on /\ reside.n = cap0 - 1) => reside.k \notin Retrievable

\* C17, amended: the same when none of the C-1 inserts of absent keys is an
\* insert of k itself.
C17_BoundedResidency ==
    (cap0 >= 1 /\ reside.on /\ reside.n = cap0 - 1 /\ ~reside.again) =>
        reside.k \notin Retrievable

\* C-1 other keys have been admitted since the watched key was seen in a
\* cache of capacity 3 or more, and it is gone
C17_Witness ==
    /\ cap0 >= 3 /\ reside.on /\ reside.n = cap0 - 1 /\ ~reside.again
    /\ reside.k \notin DOMAIN map
    /\ Len(oldest) = cap0 - 1

\* ---- C19 ----
\* C19: a key inserted again after it was removed or evicted goes to the back
\* of the queue, behind every key present at that moment, and, for a
\* reserved capacity C >= 2, is evicted only once all of those keys have
\* been evicted or removed.
C19_ReadmissionAtBack ==
    cap0 >= 2 =>
        /\ readmit.phase = "back" =>
            /\ readmit.atBack
            /\ readmit.k \in Retrievable
            /\ readmit.S \subseteq Present
            /\ \A j \in readmit.S :
                    position(oldest, j) < position(oldest, readmit.k)
        /\ readmit.phase = "evicted" =>
            /\ readmit.atBack
            /\ readmit.S = {}

\* a key came back into a full cache of capacity 3 or more, evicting the
\* front key, and has since been evicted itself
C19_Witness ==
    /\ cap0 >= 3
    /\ readmit.phase = "evicted" /\ readmit.evicting /\ readmit.atBack
    /\ Len(oldest) = cap0 - 1

=============================================================================
